---- MODULE Spec2Model ----
(***************************************************************************)
(* A model of the coffee-menu assistant: the Ediya normalizer              *)
(* (src/src/ediya_deduplication.py), the three brand scrapers              *)
(* (src/src/*_crawler.py) and the Streamlit application (src/src/app.py).  *)
(*                                                                         *)
(* Python strings are modelled as sequences of one-character strings.      *)
(* The Hangul syllables of the literal ' (디카페인)' are written "di",      *)
(* "ka", "pe", "in": each stands for exactly one character.                *)
(***************************************************************************)
EXTENDS Integers, Sequences, FiniteSets, TLC

VARIABLES
    files,           \* the brand JSON files on disk: brand -> [state, records]
    before,          \* records of the Ediya file when the last pass started
    clean_runs,      \* number of clean_ediya_data passes run so far
    modified_count,  \* modified_count of the last pass
    wrote,           \* TRUE iff the last pass reached json.dump
    extracted,       \* caffeine_val computed by the last pass, per record index
    clean_outcome,   \* how the last pass ended
    value_str,       \* a nutrition string handed to the numeric extraction
    value_int,       \* the integer extracted from value_str, once extracted
    meta_int,        \* the integer setup_rag_pipeline parses from value_str
    env_key,         \* "OPENAI_API_KEY" in os.environ
    load_cache,      \* st.cache_data entry of load_data
    rag_cached,      \* st.cache_resource holds the chain of setup_rag_pipeline
    index,           \* documents in the persisted Chroma collection
    loaded,          \* the collections load_data returned in the last run
    load_errors,     \* brands load_data reported with st.error in the last run
    run,             \* the last run of main: how it ended and what it did
    scraper,         \* the scraper run in progress: its position and locals
    session          \* st.session_state, the widgets on screen and what the
                     \* runs of the last event did

cleanVars == <<before, clean_runs, modified_count, wrote, extracted,
               clean_outcome>>
extractVars == <<value_str, value_int, meta_int>>

appVars == <<env_key, load_cache, rag_cached, index, loaded, load_errors, run>>

vars == <<files, cleanVars, extractVars, appVars, scraper, session>>

(***************************************************************************)
(* Bounds of the model.                                                    *)
(***************************************************************************)
MaxRecords == 3
MaxRuns == 2
MaxStrLen == 3
MaxAppRecords == 1
MaxIndexDocs == 6
MaxProducts == 1
MaxCategories == 2
MaxClicks == 2

Brands == {"Starbucks", "Ediya", "Gong Cha"}

\* the order in which load_data reads the files and setup_rag_pipeline
\* concatenates the collections
BrandOrder == <<"Starbucks", "Ediya", "Gong Cha">>

(***************************************************************************)
(* Strings.                                                                *)
(***************************************************************************)
DECAF_SUFFIX == <<" ", "(", "di", "ka", "pe", "in", ")">>

Digits == {"0", "1", "2", "3", "4", "5", "6", "7", "8", "9"}

DigitVal(c) ==
    CASE c = "0" -> 0 [] c = "1" -> 1 [] c = "2" -> 2 [] c = "3" -> 3
      [] c = "4" -> 4 [] c = "5" -> 5 [] c = "6" -> 6 [] c = "7" -> 7
      [] c = "8" -> 8 [] c = "9" -> 9

\* s[from..] for a Python slice
Drop(s, n) == SubSeq(s, n + 1, Len(s))

StartsWith(s, p) == Len(s) >= Len(p) /\ SubSeq(s, 1, Len(p)) = p

\* str.replace(' (디카페인)', ''): one left-to-right scan that drops every
\* non-overlapping occurrence; the result is not scanned again
RECURSIVE Replace(_)
Replace(s) ==
    IF Len(s) < Len(DECAF_SUFFIX) THEN s
    ELSE IF StartsWith(s, DECAF_SUFFIX)
         THEN Replace(Drop(s, Len(DECAF_SUFFIX)))
    ELSE <<Head(s)>> \o Replace(Tail(s))

\* str.strip(): leading and trailing whitespace removed
RECURSIVE LStrip(_)
LStrip(s) == IF s # <<>> /\ Head(s) = " " THEN LStrip(Tail(s)) ELSE s

RECURSIVE RStrip(_)
RStrip(s) ==
    IF s # <<>> /\ s[Len(s)] = " " THEN RStrip(SubSeq(s, 1, Len(s) - 1)) ELSE s

Strip(s) == LStrip(RStrip(s))

\* line 26: item['name'].replace(' (디카페인)', '').strip()
normalized_name(name) == Strip(Replace(name))

(***************************************************************************)
(* Numeric extraction, ediya_deduplication.py line 41:                     *)
(*   int(re.search(r'\d+', s).group()) if re.search(r'\d+', s) else 0      *)
(***************************************************************************)
HasDigit(s) == \E i \in 1..Len(s) : s[i] \in Digits

\* the maximal run of digits at the head of s
RECURSIVE DigitPrefix(_)
DigitPrefix(s) ==
    IF s # <<>> /\ Head(s) \in Digits
    THEN <<Head(s)>> \o DigitPrefix(Tail(s))
    ELSE <<>>

\* re.search(r'\d+', s).group(): the leftmost maximal run of digits
RECURSIVE FirstDigitRun(_)
FirstDigitRun(s) ==
    IF s = <<>> THEN <<>>
    ELSE IF Head(s) \in Digits THEN DigitPrefix(s)
    ELSE FirstDigitRun(Tail(s))

\* int() of a run of digits
RECURSIVE IntOf(_)
IntOf(ds) ==
    IF ds = <<>> THEN 0
    ELSE 10 * IntOf(SubSeq(ds, 1, Len(ds) - 1)) + DigitVal(ds[Len(ds)])

\* value_str.split('.')[0]: the part of s before its first decimal point
RECURSIVE BeforePoint(_)
BeforePoint(s) ==
    IF s = <<>> \/ Head(s) = "." THEN <<>>
    ELSE <<Head(s)>> \o BeforePoint(Tail(s))

\* A nutrition mapping is a set of <<key, value>> pairs with distinct keys.
\* dict.get(key, default)
Get(map, key, default) ==
    IF \E p \in map : p[1] = key
    THEN (CHOOSE p \in map : p[1] = key)[2]
    ELSE default

\* the value the regular expression extracts from one string
extract_int(s) == IF HasDigit(s) THEN IntOf(FirstDigitRun(s)) ELSE 0

\* app.py lines 111-112: the digits before the first '.', joined, as an
\* integer
app_extract_int(s) ==
    IntOf(SelectSeq(BeforePoint(s), LAMBDA c : c \in Digits))

\* lines 40-41: the caffeine value of one record
caffeine_val(item) == extract_int(Get(item.nutrition, "caffeine", <<"0">>))

(***************************************************************************)
(* clean_ediya_data, lines 22-61.                                          *)
(***************************************************************************)
\* lines 23-27: the indices of the records filed under one normalized name,
\* in input order (a sequence of indices)
RECURSIVE GroupFrom(_, _, _)
GroupFrom(data, key, i) ==
    IF i > Len(data) THEN <<>>
    ELSE IF normalized_name(data[i].name) = key
         THEN <<i>> \o GroupFrom(data, key, i + 1)
    ELSE GroupFrom(data, key, i + 1)

items_by_name(data, key) == GroupFrom(data, key, 1)

GroupKeys(data) == {normalized_name(data[i].name) : i \in 1..Len(data)}

\* lines 35-45: the scan for the minimum; minIdx = 0 stands for
\* min_caffeine_item_info = None, min_caffeine_value = inf
RECURSIVE ScanMin(_, _, _, _, _)
ScanMin(data, items, pos, minVal, minIdx) ==
    IF pos > Len(items) THEN minIdx
    ELSE LET v == caffeine_val(data[items[pos]]) IN
         IF minIdx = 0 \/ v < minVal
         THEN ScanMin(data, items, pos + 1, v, items[pos])
         ELSE ScanMin(data, items, pos + 1, minVal, minIdx)

min_caffeine_index(data, items) == ScanMin(data, items, 1, 0, 0)

\* a variant of new_name that also writes the base name to a record that is
\* alone in its group
new_name_normalize_all(data, i) ==
    LET name == normalized_name(data[i].name)
        items == items_by_name(data, name)
    IN  IF Len(items) > 1 /\ i = min_caffeine_index(data, items)
        THEN name \o DECAF_SUFFIX
        ELSE name

\* lines 31, 52-59: the name record i carries after the pass
new_name(data, i) ==
    LET name == normalized_name(data[i].name)
        items == items_by_name(data, name)
    IN  IF Len(items) > 1 /\ min_caffeine_index(data, items) # 0
        THEN IF i = min_caffeine_index(data, items)
             THEN name \o DECAF_SUFFIX
             ELSE name
        ELSE data[i].name

cleaned(data) ==
    [i \in 1..Len(data) |-> [data[i] EXCEPT !.name = new_name(data, i)]]

\* lines 29, 60: one increment per group that receives the suffix
count_modified(data) ==
    Cardinality({k \in GroupKeys(data) :
                    /\ Len(items_by_name(data, k)) > 1
                    /\ min_caffeine_index(data, items_by_name(data, k)) # 0})

\* lines 38-41: the values the pass extracts, for the members of the groups
\* it compares
extracted_by_pass(data) ==
    [i \in {j \in 1..Len(data) :
              Len(items_by_name(data, normalized_name(data[j].name))) > 1}
        |-> caffeine_val(data[i])]

(***************************************************************************)
(* The inputs of the model.                                                *)
(***************************************************************************)
\* every sequence over S of length at most n
SeqsUpTo(S, n) == UNION {[1..k -> S] : k \in 0..n}

MissingFile == [state |-> "missing", records |-> <<>>]
MalformedFile == [state |-> "malformed", records |-> <<>>]
JsonFile(recs) == [state |-> "ok", records |-> recs]

\* names: a plain name, the same name already tagged, the same name with
\* leading whitespace, and a name in which removing the tag leaves a tag
\* behind ("A ( (디카페인)디카페인)"), which is filed under another key
NameA == <<"A">>
NestedName ==
    <<"A", " ", "(">> \o DECAF_SUFFIX \o <<"di", "ka", "pe", "in", ")">>
CleanNames ==
    {NameA, NameA \o DECAF_SUFFIX, <<" ">> \o NameA, NestedName}

\* caffeine fields: "150mg", the placeholder "-", or no such key
CaffeineSamples ==
    {<<"1", "5", "0", "m", "g">>, <<"-">>}
NutritionSamples ==
    {{}} \cup {{<<"caffeine", c>>} : c \in CaffeineSamples}

EdiyaRecords ==
    {[brand |-> "Ediya", name |-> n, category |-> "COFFEE",
      description |-> <<>>, nutrition |-> nu] :
        n \in CleanNames, nu \in NutritionSamples}

\* nutrition strings for the numeric extraction: every string of at most
\* MaxStrLen characters over a small alphabet, and the strings of the
\* documentation ("150mg", "12.5g", "1,200mg")
ValueAlphabet == {"0", "1", "5", ".", ",", "g", "-"}
ValueSamples ==
    {<<"1", "5", "0", "m", "g">>, <<"1", "2", ".", "5", "g">>,
     <<"1", ",", "2", "0", "0", "m", "g">>}
ValueStrings == SeqsUpTo(ValueAlphabet, MaxStrLen) \cup ValueSamples

(***************************************************************************)
(* The normalizer as a state machine: one action per run of                *)
(* clean_ediya_data.                                                       *)
(***************************************************************************)
CleanIdle ==
    /\ before = <<>>
    /\ clean_runs = 0
    /\ modified_count = 0
    /\ wrote = FALSE
    /\ extracted = [i \in {} |-> 0]
    /\ clean_outcome = "idle"

ExtractIdle ==
    /\ value_str = <<>>
    /\ value_int = -1
    /\ meta_int = -1

NoRun == [outcome |-> "none", load |-> "none", key |-> FALSE, log |-> <<>>,
          index_before |-> <<>>]
NoData == [b \in Brands |-> <<>>]
EmptyCache == [cached |-> FALSE, data |-> NoData, errors |-> <<>>]

\* no scraper has been started
NoScraper ==
    [brand |-> "none", pc |-> "idle", result |-> "none", wrote |-> FALSE,
     critical |-> FALSE, all_menu_data |-> <<>>, products |-> 0,
     category_count |-> 0, i |-> 0, clicks |-> 0, prior |-> MissingFile]

\* no widget has been used
NoEvent == [kind |-> "none", text |-> "", index |-> 0]

\* qa_chain.invoke has not been called
NoCall ==
    [called |-> FALSE, question |-> "", chat_history |-> <<>>,
     transcript |-> <<>>, outcome |-> "none", answer |-> ""]

\* a browser session before its first run: st.session_state is empty, the
\* sidebar radio is on its first option, nothing is on screen
NoSession ==
    [mode |-> "kiosk", selected_item |-> <<>>, active_brand |-> "",
     active_category |-> <<>>, messages |-> <<>>,
     prompt_from_recommendation |-> <<>>, questions_file |-> MissingFile,
     rerun |-> FALSE, view |-> "none", categories |-> <<>>, grid |-> <<>>,
     recommended |-> FALSE, event |-> NoEvent, runs |-> <<>>, qa |-> NoCall,
     before |-> [active_brand |-> "", messages |-> <<>>],
     brand_at_select |-> ""]

AppIdle ==
    /\ scraper = NoScraper
    /\ session = NoSession
    /\ env_key = FALSE
    /\ load_cache = EmptyCache
    /\ rag_cached = FALSE
    /\ index = <<>>
    /\ loaded = NoData
    /\ load_errors = <<>>
    /\ run = NoRun

InitClean ==
    /\ \E f \in {MissingFile, MalformedFile}
               \cup {JsonFile(r) : r \in SeqsUpTo(EdiyaRecords, MaxRecords)} :
          files = [b \in Brands |-> IF b = "Ediya" THEN f ELSE MissingFile]
    /\ CleanIdle
    /\ ExtractIdle
    /\ AppIdle

\* clean_ediya_data(), lines 6-68
clean_ediya_data ==
    /\ clean_runs < MaxRuns
    /\ clean_runs' = clean_runs + 1
    /\ LET f == files["Ediya"] IN
       IF f.state = "missing"
       THEN \* lines 18-20: FileNotFoundError, report and return
            /\ clean_outcome' = "missing"
            /\ wrote' = FALSE
            /\ UNCHANGED <<files, before, modified_count, extracted>>
       ELSE IF f.state = "malformed"
       THEN \* line 17: json.load raises, nothing catches it
            /\ clean_outcome' = "raised"
            /\ wrote' = FALSE
            /\ UNCHANGED <<files, before, modified_count, extracted>>
       ELSE LET count == count_modified(f.records) IN
            /\ clean_outcome' = "cleaned"
            /\ before' = f.records
            /\ extracted' = extracted_by_pass(f.records)
            /\ modified_count' = count
            \* lines 63-68: the file is rewritten when the count is positive
            /\ wrote' = (count > 0)
            /\ files' = IF count > 0
                        THEN [files EXCEPT !["Ediya"] =
                                  JsonFile(cleaned(f.records))]
                        ELSE files
    /\ UNCHANGED <<extractVars, appVars, scraper, session>>

NextClean == clean_ediya_data

SpecClean == InitClean /\ [][NextClean]_vars

(***************************************************************************)
(* The numeric extraction alone, applied to one nutrition string.          *)
(***************************************************************************)
InitExtract ==
    /\ files = [b \in Brands |-> MissingFile]
    /\ CleanIdle
    /\ value_str \in ValueStrings
    /\ value_int = -1
    /\ meta_int = -1
    /\ AppIdle

ExtractCaffeine ==
    /\ value_int = -1
    /\ value_int' = extract_int(value_str)
    /\ UNCHANGED <<files, cleanVars, value_str, meta_int, appVars, scraper,
                   session>>

\* app.py lines 109-112 applied to the same string
ParseNutrition ==
    /\ meta_int = -1
    /\ meta_int' = app_extract_int(value_str)
    /\ UNCHANGED <<files, cleanVars, value_str, value_int, appVars, scraper,
                   session>>

NextExtract == ExtractCaffeine \/ ParseNutrition

SpecExtract == InitExtract /\ [][NextExtract]_vars

(***************************************************************************)
(* The application, src/src/app.py: load_data, setup_rag_pipeline, main.   *)
(***************************************************************************)
\* position of a brand in BrandOrder
BrandPos(b) == CHOOSE i \in 1..Len(BrandOrder) : BrandOrder[i] = b

\* the brands at positions 1..n whose file is missing, in reading order
RECURSIVE MissingUpTo(_, _)
MissingUpTo(fs, n) ==
    IF n = 0 THEN <<>>
    ELSE MissingUpTo(fs, n - 1)
         \o (IF fs[BrandOrder[n]].state = "missing"
             THEN <<BrandOrder[n]>> ELSE <<>>)

\* a variant of load_data that gives up at the first missing file
load_data_first_missing_fatal(fs) ==
    LET gone == {i \in 1..Len(BrandOrder) : fs[BrandOrder[i]].state # "ok"}
        last == IF gone = {} THEN Len(BrandOrder)
                ELSE (CHOOSE i \in gone : \A j \in gone : i <= j) - 1
    IN  [outcome |-> IF gone = {} THEN "returned" ELSE "raised",
         data |-> [b \in Brands |->
                      IF BrandPos(b) <= last THEN fs[b].records ELSE <<>>],
         errors |-> <<>>]

\* load_data(), lines 25-53, executed on the files fs: the three files are
\* read in order; FileNotFoundError is caught and reported, any other
\* exception of json.load (a JSONDecodeError) leaves the function
load_data(fs) ==
    LET bad == {i \in 1..Len(BrandOrder) :
                   fs[BrandOrder[i]].state = "malformed"}
        last == IF bad = {} THEN Len(BrandOrder)
                ELSE (CHOOSE i \in bad : \A j \in bad : i <= j) - 1
    IN  [outcome |-> IF bad = {} THEN "returned" ELSE "raised",
         data |-> [b \in Brands |->
                      IF BrandPos(b) <= last /\ fs[b].state = "ok"
                      THEN fs[b].records ELSE <<>>],
         errors |-> MissingUpTo(fs, last)]

\* lines 100-107: metadata key -> nutrition key
NutritionKeys ==
    [caffeine_mg |-> "caffeine", sugars_g |-> "sugars",
     sodium_mg |-> "sodium", protein_g |-> "protein",
     saturated_fat_g |-> "saturated_fat", calories_kcal |-> "calories"]

\* lines 88-89: the test that skips a record; the text always holds the four
\* labels, so it is never empty
Skipped(item) == item.name = <<>>

\* lines 70-117: the document of one record. The text is kept as the tuple
\* of the fields the f-string joins.
Document(item) ==
    [page_content |-> <<item.brand, item.name, item.category,
                        item.description, item.nutrition>>,
     metadata |->
        [brand |-> item.brand, name |-> item.name, category |-> item.category,
         nutrition |->
            IF item.nutrition # {}
            THEN [k \in DOMAIN NutritionKeys |->
                     app_extract_int(Get(item.nutrition, NutritionKeys[k],
                                         <<"0">>))]
            ELSE [k \in {} |-> 0]]]

\* lines 67-117
RECURSIVE build_documents(_)
build_documents(items) ==
    IF items = <<>> THEN <<>>
    ELSE (IF Skipped(Head(items)) THEN <<>> ELSE <<Document(Head(items))>>)
         \o build_documents(Tail(items))

\* line 66
all_menu_items(data) ==
    data["Starbucks"] \o data["Ediya"] \o data["Gong Cha"]

\* line 122, Chroma.from_documents(documents, embeddings, persist_directory):
\* opens the collection of the directory and adds every document to it
from_documents(stored, documents) == stored \o documents

\* main(), lines 425-444: one run of the script, with the mode the sidebar
\* radio holds
main(mode) ==
    LET ld == IF load_cache.cached
              THEN [outcome |-> "returned", data |-> load_cache.data,
                    errors |-> load_cache.errors]
              ELSE load_data(files)
        documents == build_documents(all_menu_items(ld.data))
        thisRun == [outcome |-> "rendered", load |-> ld.outcome,
                    key |-> env_key, log |-> <<>>, index_before |-> index]
    IN  /\ load_errors' = ld.errors
        /\ UNCHANGED <<files, cleanVars, extractVars, env_key, scraper,
                          session>>
        /\ IF ld.outcome = "raised"
           THEN \* line 433: the exception of load_data ends the run
                /\ run' = [thisRun EXCEPT !.outcome = "raised"]
                /\ loaded' = NoData
                /\ UNCHANGED <<load_cache, rag_cached, index>>
           ELSE /\ loaded' = ld.data
                /\ load_cache' = [cached |-> TRUE, data |-> ld.data,
                                  errors |-> ld.errors]
                /\ IF rag_cached
                   THEN \* line 436: the cached chain is returned
                        /\ run' = [thisRun EXCEPT
                                      !.log = <<"mode_selector", mode>>]
                        /\ UNCHANGED <<rag_cached, index>>
                   ELSE IF ~env_key
                   THEN \* lines 61-63: st.error, st.stop
                        /\ run' = [thisRun EXCEPT
                                      !.outcome = "stopped",
                                      !.log = <<"st.error", "st.stop">>]
                        /\ UNCHANGED <<rag_cached, index>>
                   ELSE \E ok \in BOOLEAN :
                        IF ok
                        THEN \* lines 65-187, then 439-444
                             /\ Len(index) + Len(documents) <= MaxIndexDocs
                             /\ index' = from_documents(index, documents)
                             /\ rag_cached' = TRUE
                             /\ run' = [thisRun EXCEPT
                                   !.log = <<"documents", "embeddings",
                                             "vectorstore", "qa_chain",
                                             "mode_selector", mode>>]
                        ELSE \* the embedding request fails: nothing is
                             \* stored and nothing is cached
                             /\ run' = [thisRun EXCEPT
                                   !.outcome = "raised",
                                   !.log = <<"documents", "embeddings">>]
                             /\ UNCHANGED <<rag_cached, index>>

\* the server process is started again: both caches are empty, the Chroma
\* directory and the JSON files stay; the environment may differ
restart ==
    /\ run.outcome # "none"
    /\ \E k \in BOOLEAN : env_key' = k
    /\ load_cache' = EmptyCache
    /\ rag_cached' = FALSE
    /\ loaded' = NoData
    /\ load_errors' = <<>>
    /\ run' = NoRun
    /\ UNCHANGED <<files, cleanVars, extractVars, index, scraper,
                   session>>

\* line 430, load_dotenv(): a .env file written since the last run puts the
\* key into the environment; a key in the environment stays there
dotenv_gets_key ==
    /\ ~env_key
    /\ env_key' = TRUE
    /\ UNCHANGED <<files, cleanVars, extractVars, load_cache, rag_cached,
                   index, loaded, load_errors, run, scraper, session>>

AppModes == {"kiosk", "chatbot"}

\* sample records of one brand: a complete record, a record with neither
\* name nor text, and a record with a description and nutrition but no name
AppRecords(b) ==
    {[brand |-> b, name |-> NameA,
      category |-> IF b = "Starbucks" THEN "" ELSE "COFFEE",
      description |-> <<"d">>,
      nutrition |-> {<<"caffeine", <<"1", "5", "0", "m", "g">>>>}],
     [brand |-> b, name |-> <<>>,
      category |-> "", description |-> <<>>, nutrition |-> {}],
     [brand |-> b, name |-> <<>>,
      category |-> "", description |-> <<"d">>,
      nutrition |-> {<<"caffeine", <<"0", "m", "g">>>>}]}

AppFiles(b) ==
    {MissingFile, MalformedFile}
        \cup {JsonFile(r) : r \in SeqsUpTo(AppRecords(b), MaxAppRecords)}

InitApp ==
    /\ files \in {fs \in [Brands -> UNION {AppFiles(b) : b \in Brands}] :
                     \A b \in Brands : fs[b] \in AppFiles(b)}
    /\ CleanIdle
    /\ ExtractIdle
    /\ env_key \in BOOLEAN
    /\ load_cache = EmptyCache
    /\ rag_cached = FALSE
    /\ index = <<>>
    /\ loaded = NoData
    /\ load_errors = <<>>
    /\ run = NoRun
    /\ scraper = NoScraper
    /\ session = NoSession

NextApp ==
    \/ \E mode \in AppModes : main(mode)
    \/ restart
    \/ dotenv_gets_key

SpecApp == InitApp /\ [][NextApp]_vars

(***************************************************************************)
(* The interactive session, src/src/app.py lines 195-422.  An action is    *)
(* one use of a widget: the run of the script it starts and the runs       *)
(* started by st.rerun() until a run reaches its end.  A button or the     *)
(* chat input returns its value only in the run its use starts; a radio    *)
(* returns the option the user chose in that run, otherwise the option at  *)
(* the index it is given.                                                  *)
(***************************************************************************)
MaxMessages == 4

\* lines 287, 219-221: the labels of the brand radio (the Hangul labels
\* 스타벅스, 이디야, 공차, transliterated)
brand_options == <<"seutabeokseu", "idiya", "gongcha">>

\* lines 218-223: brand_mapping.get(item.get('brand'), "스타벅스")
brand_mapping(brand) ==
    CASE brand = "Starbucks" -> "seutabeokseu"
      [] brand = "Ediya" -> "idiya"
      [] brand = "Gong Cha" -> "gongcha"
      [] OTHER -> "seutabeokseu"

\* lines 288-292
brand_data_map(data, label) ==
    CASE label = "seutabeokseu" -> data["Starbucks"]
      [] label = "idiya" -> data["Ediya"]
      [] label = "gongcha" -> data["Gong Cha"]

InSeq(x, seq) == \E i \in 1..Len(seq) : seq[i] = x

\* a variant of get_categories that appends every category it meets
get_categories_with_repeats(data) ==
    LET cats == [i \in 1..Len(data) |-> data[i].category]
    IN  SelectSeq(cats, LAMBDA c : c # "")

\* lines 266-271: the loop of get_categories
RECURSIVE CategoriesFrom(_, _)
CategoriesFrom(data, categories) ==
    IF data = <<>> THEN categories
    ELSE LET cat == Head(data).category IN
         CategoriesFrom(Tail(data),
                        IF cat # "" /\ ~InSeq(cat, categories)
                        THEN Append(categories, cat)
                        ELSE categories)

\* lines 264-271
get_categories(data) == CategoriesFrom(data, <<>>)

\* a run reaches its end with the given widgets on screen; recs is the length
\* of the transcript when the recommended questions were rendered, -1 when
\* they were not
EndRun(s, view, categories, grid, recs) ==
    [s EXCEPT !.rerun = FALSE, !.view = view, !.categories = categories,
              !.grid = grid, !.recommended = (recs >= 0),
              !.runs = Append(@, [ended |-> view, recommendations |-> recs])]

\* st.rerun(): the run stops here and the script is run again
Rerun(s, recs) ==
    [s EXCEPT !.rerun = TRUE,
              !.runs = Append(@, [ended |-> "st.rerun",
                                  recommendations |-> recs])]

\* lines 195-225
display_menu_item_details(s, item, ev) ==
    IF ev.kind = "back"
    THEN Rerun([s EXCEPT !.active_brand = brand_mapping(item.brand),
                         !.selected_item = <<>>], -1)
    ELSE EndRun(s, "detail", <<>>, <<>>, -1)

\* lines 227-262; view names what the grid holds
display_menu_grid(s, menu_data, view, categories, ev) ==
    IF menu_data = <<>>
    THEN EndRun(s, "no_data", categories, <<>>, -1)
    ELSE IF ev.kind = "click_item" /\ ev.index \in 1..Len(menu_data)
    THEN Rerun([s EXCEPT !.selected_item = <<menu_data[ev.index]>>,
                         !.brand_at_select = s.active_brand], -1)
    ELSE EndRun(s, view, categories, menu_data, -1)

\* line 336
filtered_menu(current_data, category) ==
    SelectSeq(current_data, LAMBDA item : item.category = category)

\* lines 273-337
kiosk_mode(s, data, ev) ==
    IF s.selected_item # <<>>
    THEN display_menu_item_details(s, s.selected_item[1], ev)
    ELSE
    LET \* lines 282-285
        s1 == [s EXCEPT !.active_brand =
                            IF @ = "" THEN brand_options[1] ELSE @]
        \* lines 295-301
        selected_brand == IF ev.kind = "select_brand" THEN ev.text
                          ELSE s1.active_brand
        current_data == brand_data_map(data, s1.active_brand)
        categories == get_categories(current_data)
        \* lines 319-320
        s2 == [s1 EXCEPT !.active_category =
                  IF @ = <<>> \/ ~InSeq(@[1], categories)
                  THEN <<categories[1]>> ELSE @]
        \* lines 322-328
        selected_category ==
            IF ev.kind = "select_category" /\ InSeq(ev.text, categories)
            THEN ev.text ELSE s2.active_category[1]
    IN  IF selected_brand # s1.active_brand
        THEN \* lines 304-307
             Rerun([s1 EXCEPT !.active_brand = selected_brand,
                              !.active_category = <<>>], -1)
        ELSE IF categories = <<>>
        THEN \* lines 313-316
             display_menu_grid(s1, current_data, "all_grid", <<>>, ev)
        ELSE IF selected_category # s2.active_category[1]
        THEN \* lines 331-333
             Rerun([s2 EXCEPT !.active_category = <<selected_category>>], -1)
        ELSE \* lines 336-337
             display_menu_grid(s2,
                 filtered_menu(current_data, s2.active_category[1]),
                 "grid", categories, ev)

\* lines 341-352: a missing or malformed file gives no question
load_recommended_questions(f) ==
    IF f.state = "ok" THEN f.records ELSE <<>>

\* a variant of show_recommendations that ignores the transcript
show_recommendations_always(messages) == TRUE

\* line 378: 'if not st.session_state.messages'
show_recommendations(messages) == messages = <<>>

\* lines 406-413: the pairs of the entries before the last one, taken two by
\* two from the start; i counts from 0
RECURSIVE PairsFrom(_, _)
PairsFrom(earlier, i) ==
    IF i >= Len(earlier) THEN <<>>
    ELSE (IF /\ i + 1 < Len(earlier)
             /\ earlier[i + 1].role = "user"
             /\ earlier[i + 2].role = "assistant"
          THEN << <<earlier[i + 1].content, earlier[i + 2].content>> >>
          ELSE <<>>)
         \o PairsFrom(earlier, i + 2)

chat_history(messages) ==
    PairsFrom(SubSeq(messages, 1, Len(messages) - 1), 0)

\* lines 354-422; response is what qa_chain.invoke does if it is called:
\* "raised", or the answer it returns
chatbot_mode(s, ev, response) ==
    IF ev.kind = "reset"
    THEN \* lines 359-362
         Rerun([s EXCEPT !.messages = <<>>,
                         !.prompt_from_recommendation = <<>>], -1)
    ELSE
    LET recommended_questions == load_recommended_questions(s.questions_file)
        shown == show_recommendations(s.messages)
                     /\ recommended_questions # <<>>
        recs == IF shown THEN Len(s.messages) ELSE -1
        \* lines 390-393
        typed == IF ev.kind = "chat_input" THEN <<ev.text>> ELSE <<>>
        prompt == IF s.prompt_from_recommendation # <<>>
                  THEN s.prompt_from_recommendation ELSE typed
        s1 == [s EXCEPT !.prompt_from_recommendation = <<>>]
        last == s1.messages[Len(s1.messages)]
        call == [called |-> TRUE, question |-> last.content,
                 chat_history |-> chat_history(s1.messages),
                 transcript |-> s1.messages,
                 outcome |-> IF response = "raised" THEN "raised"
                             ELSE "returned",
                 answer |-> IF response = "raised" THEN "" ELSE response]
    IN  IF /\ shown
           /\ ev.kind = "click_recommendation"
           /\ ev.index \in 1..Len(recommended_questions)
        THEN \* lines 385-387
             Rerun([s EXCEPT !.prompt_from_recommendation =
                                 <<recommended_questions[ev.index]>>], recs)
        ELSE IF prompt # <<>>
        THEN \* lines 395-399
             Rerun([s1 EXCEPT !.messages =
                        Append(@, [role |-> "user", content |-> prompt[1]])],
                   recs)
        ELSE IF s1.messages # <<>> /\ last.role = "user"
        THEN \* lines 402-422
             IF response = "raised"
             THEN EndRun([s1 EXCEPT !.qa = call], "chat", <<>>, <<>>, recs)
             ELSE EndRun([s1 EXCEPT
                            !.qa = call,
                            !.messages =
                                Append(@, [role |-> "assistant",
                                           content |-> response])],
                         "chat", <<>>, <<>>, recs)
        ELSE EndRun(s1, "chat", <<>>, <<>>, recs)

\* lines 439-444, with load_data and setup_rag_pipeline answered from their
\* caches: one run of the script
Script(s, data, ev, response) ==
    LET s0 == [s EXCEPT !.mode = IF ev.kind = "select_mode"
                                 THEN ev.text ELSE @]
    IN  IF s0.mode = "kiosk" THEN kiosk_mode(s0, data, ev)
        ELSE chatbot_mode(s0, ev, response)

\* the run a widget starts, and the runs st.rerun() starts after it
RECURSIVE RunScript(_, _, _, _)
RunScript(s, data, ev, response) ==
    LET r == Script(s, data, ev, response)
    IN  IF r.rerun THEN RunScript(r, data, NoEvent, response) ELSE r

Answers == {"a"}
Responses == {"raised"} \cup Answers

\* what the user types into st.chat_input
TypedPrompts == {"q"}

\* the user uses one widget of the screen
Handle(ev) ==
    /\ rag_cached
    /\ \E response \in Responses :
          LET s0 == [session EXCEPT
                        !.event = ev, !.runs = <<>>, !.qa = NoCall,
                        !.before = [active_brand |-> session.active_brand,
                                    messages |-> session.messages]]
              r == RunScript(s0, loaded, ev, response)
          IN  /\ Len(r.messages) <= MaxMessages
              /\ session' = r
    /\ UNCHANGED <<files, cleanVars, extractVars, appVars, scraper>>

Event(kind, text, k) == [kind |-> kind, text |-> text, index |-> k]

\* the page is opened: the first run of the session
open_page ==
    /\ session.view = "none"
    /\ Handle(NoEvent)

\* line 439: the sidebar radio
select_mode(mode) ==
    /\ session.view # "none"
    /\ mode # session.mode
    /\ Handle(Event("select_mode", mode, 0))

\* lines 295-301: the brand radio
select_brand(label) ==
    /\ session.view \in {"grid", "all_grid", "no_data"}
    /\ label # session.active_brand
    /\ Handle(Event("select_brand", label, 0))

\* lines 322-328: the category radio
select_category(category) ==
    /\ session.view \in {"grid", "no_data"}
    /\ InSeq(category, session.categories)
    /\ category # session.active_category[1]
    /\ Handle(Event("select_category", category, 0))

\* lines 259-262: the button of the k-th record of the grid
click_item(k) ==
    /\ session.view \in {"grid", "all_grid"}
    /\ k \in 1..Len(session.grid)
    /\ Handle(Event("click_item", "", k))

\* line 216: the back button of the detail view
back ==
    /\ session.view = "detail"
    /\ Handle(Event("back", "", 0))

\* line 390: a question is typed
chat_input(text) ==
    /\ session.view = "chat"
    /\ Handle(Event("chat_input", text, 0))

\* line 385: the button of the i-th recommended question
click_recommendation(i) ==
    /\ session.view = "chat"
    /\ session.recommended
    /\ Handle(Event("click_recommendation", "", i))

\* line 359: the reset button
reset ==
    /\ session.view = "chat"
    /\ Handle(Event("reset", "", 0))

\* a record as the kiosk reads it
KioskRecord(brand, name, category) ==
    [brand |-> brand, name |-> <<name>>, category |-> category,
     description |-> <<"d">>, nutrition |-> {}]

\* a brand field that is not the brand of the file holding the record: the
\* name of another brand, or no known brand
ForeignBrand(b) == IF b = "Gong Cha" THEN "" ELSE "Gong Cha"

\* sample collections of one brand: none; records without category; records
\* that all have a category, one category occurring twice; and a collection
\* with a record whose brand field names another brand
KioskCollections(b) ==
    {<<>>,
     <<KioskRecord(b, "a", ""), KioskRecord(b, "b", "")>>,
     <<KioskRecord(b, "a", "X"), KioskRecord(b, "b", "Y"),
       KioskRecord(b, "c", "X")>>,
     <<KioskRecord(b, "a", "X"), KioskRecord(ForeignBrand(b), "b", "Y")>>}

QuestionFiles == {MissingFile, MalformedFile, JsonFile(<<"r">>)}

\* a browser session opens on a server whose caches are filled with the
\* collections data; the questions file is qfile
OpenSession(data, qfile) ==
    /\ loaded = data
    /\ files = [b \in Brands |-> JsonFile(data[b])]
    /\ CleanIdle
    /\ ExtractIdle
    /\ env_key = TRUE
    /\ load_cache = [cached |-> TRUE, data |-> data, errors |-> <<>>]
    /\ rag_cached = TRUE
    /\ index = build_documents(all_menu_items(data))
    /\ load_errors = <<>>
    /\ run = NoRun
    /\ scraper = NoScraper
    /\ session = [NoSession EXCEPT !.questions_file = qfile]

\* the menu browser: every combination of the sample collections
InitKiosk ==
    \E data \in [Brands -> UNION {KioskCollections(b) : b \in Brands}] :
        /\ \A b \in Brands : data[b] \in KioskCollections(b)
        /\ OpenSession(data, MissingFile)

NextKiosk ==
    \/ open_page
    \/ \E mode \in AppModes : select_mode(mode)
    \/ \E label \in {brand_options[i] : i \in 1..Len(brand_options)} :
          select_brand(label)
    \/ \E category \in {"X", "Y"} : select_category(category)
    \/ \E k \in 1..3 : click_item(k)
    \/ back

SpecKiosk == InitKiosk /\ [][NextKiosk]_vars

\* the chat: every questions file, over one set of collections
InitChat ==
    \E qfile \in QuestionFiles :
        OpenSession([b \in Brands |-> <<KioskRecord(b, "a", "X")>>], qfile)

NextChat ==
    \/ open_page
    \/ \E mode \in AppModes : select_mode(mode)
    \/ \E text \in TypedPrompts : chat_input(text)
    \/ \E i \in 1..1 : click_recommendation(i)
    \/ reset

SpecChat == InitChat /\ [][NextChat]_vars

(***************************************************************************)
(* The scrapers, src/src/*_crawler.py.  A run is a sequence of steps; what *)
(* the browser and the site answer is chosen at each step.                 *)
(***************************************************************************)
\* gongcha_crawler.py lines 32-40 (names transliterated)
GongchaCategories ==
    <<"New Season Menu", "Best Seller", "Milk Tea", "Smoothie",
      "Original Tea", "Fruit Tea & More", "Coffee">>

\* the record a scraper builds for one product (menu_data)
menu_data(b, category) ==
    [brand |-> b, name |-> <<"P">>, category |-> category,
     description |-> <<>>, nutrition |-> {}]

\* n copies of a record
Copies(rec, n) == [k \in 1..n |-> rec]

\* a variant of dump that keeps the old file when nothing was collected
dump_unless_empty(fs, b, data) ==
    IF data = <<>> THEN fs ELSE [fs EXCEPT ![b] = JsonFile(data)]

\* open(file_path, 'w') and json.dump(all_menu_data, f, ...)
dump(fs, b, data) == [fs EXCEPT ![b] = JsonFile(data)]

\* a run of one scraper starts
StartScraper(b, pc) ==
    /\ scraper.brand = "none"
    /\ scraper' = [NoScraper EXCEPT !.brand = b, !.pc = pc,
                                    !.result = "running",
                                    !.prior = files[b]]
    /\ UNCHANGED <<files, cleanVars, extractVars, appVars, session>>

\* the function returns without reaching its json.dump
ReturnWithoutWrite(products) ==
    /\ scraper' = [scraper EXCEPT !.pc = "done", !.result = "returned",
                                  !.products = products]
    /\ UNCHANGED <<files, cleanVars, extractVars, appVars, session>>

Goto(next) ==
    /\ scraper' = next
    /\ UNCHANGED <<files, cleanVars, extractVars, appVars, session>>

\* an exception reaches the outer 'except Exception' and the run goes on to
\* its json.dump
Critical == [scraper EXCEPT !.pc = "save", !.critical = TRUE]

\* starbucks_crawler.py lines 11-24
get_starbucks_menu ==
    /\ StartScraper("Starbucks", "sb_list")

\* lines 25-69: the product list. No li.menuDataSet on the page returns on
\* line 47; an exception is caught on line 60 with the products extracted
\* so far; an empty product list returns on line 69.
sb_list ==
    /\ scraper.pc = "sb_list"
    /\ \E n \in 0..MaxProducts :
          IF n = 0
          THEN ReturnWithoutWrite(0)
          ELSE Goto([scraper EXCEPT !.pc = "sb_driver", !.products = n])

\* lines 71-82: the driver for the detail pages
sb_driver ==
    /\ scraper.pc = "sb_driver"
    /\ \E ok \in BOOLEAN :
          Goto(IF ok THEN [scraper EXCEPT !.pc = "sb_product", !.i = 1]
               ELSE Critical)

\* lines 84-145: one product; a failure is logged and the product skipped
sb_product ==
    /\ scraper.pc = "sb_product"
    /\ \E ok \in BOOLEAN :
          Goto([scraper EXCEPT
                  !.all_menu_data =
                      IF ok THEN Append(@, menu_data("Starbucks", ""))
                      ELSE @,
                  !.i = @ + 1,
                  !.pc = IF scraper.i = scraper.products
                         THEN "save" ELSE "sb_product"])

\* ediya_crawler.py lines 13-22
get_ediya_menu ==
    /\ StartScraper("Ediya", "ed_setup")

\* lines 24-41: driver, page, number of category labels
ed_setup ==
    /\ scraper.pc = "ed_setup"
    /\ \E ok \in BOOLEAN, count \in 0..MaxCategories :
          Goto(IF ok
               THEN [scraper EXCEPT !.pc = "ed_category",
                                    !.category_count = count, !.i = 0]
               ELSE Critical)

\* lines 43-73: the head of the category loop
ed_category ==
    /\ scraper.pc = "ed_category"
    /\ IF scraper.i >= scraper.category_count
       THEN Goto([scraper EXCEPT !.pc = "save"])
       ELSE \E what \in {"shrunk", "topping", "selected", "failed"} :
              Goto(CASE what = "shrunk" ->
                            \* lines 46-48: fewer labels than before, break
                            [scraper EXCEPT !.pc = "save"]
                     [] what = "topping" ->
                            \* lines 53-55: continue
                            [scraper EXCEPT !.i = @ + 1]
                     [] what = "selected" ->
                            [scraper EXCEPT !.pc = "ed_more", !.clicks = 0]
                     [] what = "failed" -> Critical)

\* lines 76-80: the head of 'while True': wait up to 2 s for the 'more'
\* control to be clickable. Only a timeout (or no such element) leaves the
\* loop; any other exception reaches line 130.
ed_more ==
    /\ scraper.pc = "ed_more"
    /\ \E what \in {"clickable", "timeout", "failed"} :
          Goto(CASE what = "clickable" -> [scraper EXCEPT !.pc = "ed_click"]
                 [] what = "timeout" -> [scraper EXCEPT !.pc = "ed_items"]
                 [] what = "failed" -> Critical)

\* lines 81-82: click the control, sleep 1 s and go back to the head of the
\* loop. The code keeps no count of its clicks; clicks counts them up to
\* MaxClicks and stays there.
ed_click ==
    /\ scraper.pc = "ed_click"
    /\ Goto([scraper EXCEPT
               !.pc = "ed_more",
               !.clicks = IF @ < MaxClicks THEN @ + 1 ELSE @])

\* lines 87-128: the items of the category; a failing item is skipped
ed_items ==
    /\ scraper.pc = "ed_items"
    /\ \E k \in 0..MaxProducts :
          Goto([scraper EXCEPT
                  !.all_menu_data = @ \o Copies(menu_data("Ediya", "COFFEE"), k),
                  !.i = @ + 1,
                  !.pc = "ed_category"])

\* gongcha_crawler.py lines 25-45
get_gongcha_menu ==
    /\ StartScraper("Gong Cha", "gc_urls")

\* lines 47-80: the links of one category; a timeout, an error or no new
\* link goes on to the next category
gc_urls ==
    /\ scraper.pc = "gc_urls"
    /\ IF scraper.i >= Len(GongchaCategories)
       THEN Goto([scraper EXCEPT !.pc = "save"])
       ELSE \E n \in 0..MaxProducts :
              Goto(IF n = 0
                   THEN [scraper EXCEPT !.i = @ + 1]
                   ELSE [scraper EXCEPT !.pc = "gc_scrape", !.products = n])

\* lines 82-127: the pages of the category. The try has no except: when
\* create_driver raises, the exception leaves get_gongcha_menu.
gc_scrape ==
    /\ scraper.pc = "gc_scrape"
    /\ \E ok \in BOOLEAN, k \in 0..scraper.products :
          Goto(IF ok
               THEN [scraper EXCEPT
                       !.all_menu_data =
                           @ \o Copies(menu_data("Gong Cha",
                                           GongchaCategories[scraper.i + 1]), k),
                       !.i = @ + 1,
                       !.pc = "gc_urls"]
               ELSE [scraper EXCEPT !.pc = "done", !.result = "raised"])

\* the end of each scraper (starbucks_crawler.py lines 154-162,
\* ediya_crawler.py lines 135-143, gongcha_crawler.py lines 130-136): the
\* collection is written over the brand's file
save ==
    /\ scraper.pc = "save"
    /\ files' = dump(files, scraper.brand, scraper.all_menu_data)
    /\ scraper' = [scraper EXCEPT !.pc = "done", !.result = "returned",
                                  !.wrote = TRUE]
    /\ UNCHANGED <<cleanVars, extractVars, appVars, session>>

\* a record of an earlier scrape
prior_record(b) ==
    [brand |-> b, name |-> <<"O">>, category |-> "",
     description |-> <<>>, nutrition |-> {}]

PriorFiles(b) == {MissingFile, JsonFile(<<>>), JsonFile(<<prior_record(b)>>)}

InitScrape ==
    /\ files \in {fs \in [Brands -> UNION {PriorFiles(b) : b \in Brands}] :
                     \A b \in Brands : fs[b] \in PriorFiles(b)}
    /\ CleanIdle
    /\ ExtractIdle
    /\ AppIdle

NextScrape ==
    \/ get_starbucks_menu \/ sb_list \/ sb_driver \/ sb_product
    \/ get_ediya_menu \/ ed_setup \/ ed_category \/ ed_more \/ ed_click
    \/ ed_items
    \/ get_gongcha_menu \/ gc_urls \/ gc_scrape
    \/ save

SpecScrape == InitScrape /\ [][NextScrape]_vars

\* the Ediya scraper alone, as a program that keeps running: whenever it
\* has a next step it takes one
NextEdiya ==
    \/ get_ediya_menu \/ ed_setup \/ ed_category \/ ed_more \/ ed_click
    \/ ed_items \/ save

SpecEdiyaRuns == InitScrape /\ [][NextEdiya]_vars /\ WF_vars(NextEdiya)

(***************************************************************************)
(* Properties of the normalizer.                                           *)
(***************************************************************************)
Names(recs) == [i \in 1..Len(recs) |-> recs[i].name]

EndsWith(s, p) ==
    Len(s) >= Len(p) /\ SubSeq(s, Len(s) - Len(p) + 1, Len(s)) = p

\* number of non-overlapping occurrences of p in s, scanning left to right
RECURSIVE CountOcc(_, _)
CountOcc(s, p) ==
    IF Len(s) < Len(p) THEN 0
    ELSE IF StartsWith(s, p) THEN 1 + CountOcc(Drop(s, Len(p)), p)
    ELSE CountOcc(Tail(s), p)

EdiyaData == files["Ediya"].records

\* C1: running clean_ediya_data twice gives the same names as running it
\* once: a second pass changes no record's name, and no name contains the
\* suffix ' (디카페인)' more than once.
C1_Idempotent ==
    clean_outcome = "cleaned" =>
        /\ clean_runs >= 2 => Names(EdiyaData) = Names(before)
        /\ \A i \in 1..Len(EdiyaData) :
              CountOcc(before[i].name, DECAF_SUFFIX) <= 1
                  => CountOcc(EdiyaData[i].name, DECAF_SUFFIX) <= 1

\* C2: after a pass, in every group of two or more records sharing a base
\* name exactly one member's name ends with the suffix, and it is the first
\* member, in input order, whose extracted caffeine value is the smallest of
\* the group.
C2_OneDecafPerGroup ==
    clean_outcome = "cleaned" =>
        \A k \in GroupKeys(EdiyaData) :
            LET items == items_by_name(EdiyaData, k)
                val(p) == caffeine_val(EdiyaData[items[p]])
                tagged(p) == EndsWith(EdiyaData[items[p]].name, DECAF_SUFFIX)
            IN  Len(items) >= 2 =>
                    \E p \in 1..Len(items) :
                        /\ \A q \in 1..Len(items) : tagged(q) <=> q = p
                        /\ \A q \in 1..Len(items) : val(p) <= val(q)
                        /\ \A q \in 1..(p - 1) : val(q) > val(p)

\* C3: after a pass no two records of the collection have the same name.
C3_NamesUnique ==
    clean_outcome = "cleaned" =>
        \A i, j \in 1..Len(EdiyaData) :
            i # j => EdiyaData[i].name # EdiyaData[j].name

\* C4: a pass overwrites the Ediya file if and only if it changed at least
\* one record's name.
C4_WriteIffChanged ==
    clean_outcome = "cleaned" =>
        (wrote <=> Names(EdiyaData) # Names(before))

\* a record without its name
OtherFields(rec) ==
    [brand |-> rec.brand, category |-> rec.category,
     description |-> rec.description, nutrition |-> rec.nutrition]

\* record i of data is the only record filed under its normalized name
AloneInGroup(data, i) ==
    Len(items_by_name(data, normalized_name(data[i].name))) = 1

\* C18: a pass leaves unchanged the number and the order of the records and
\* every field other than name, and leaves unchanged the name of every
\* record that is alone in its group, also when that name carries the
\* suffix or surrounding whitespace.
C18_FrameOfPass ==
    clean_outcome = "cleaned" =>
        /\ Len(EdiyaData) = Len(before)
        /\ \A i \in 1..Len(before) :
              /\ OtherFields(EdiyaData[i]) = OtherFields(before[i])
              /\ AloneInGroup(before, i) =>
                    EdiyaData[i].name = before[i].name

\* a pass that rewrote the file and left alone a record that is the only one
\* of its group and whose name carries the suffix, and one whose name starts
\* with whitespace
C18_Witness ==
    /\ clean_outcome = "cleaned"
    /\ wrote
    /\ \E i \in 1..Len(before) :
          /\ AloneInGroup(before, i)
          /\ before[i].name \in {NameA \o DECAF_SUFFIX, <<" ">> \o NameA}
          /\ EdiyaData[i].name = before[i].name

\* number of records whose name the last pass changed
NamesChanged ==
    Cardinality({i \in 1..Len(before) : EdiyaData[i].name # before[i].name})

\* C19: the count a pass reports equals the number of records whose name
\* after the pass differs from its name before the pass.
C19_CountIsRecordsChanged ==
    clean_outcome = "cleaned" => modified_count = NamesChanged

(***************************************************************************)
(* Properties of the numeric extraction.                                   *)
(***************************************************************************)
\* C9: the extraction returns the integer value of the first run of decimal
\* digits that occurs before any decimal point, and 0 when there is no such
\* run.
C9_FirstRunBeforePoint ==
    value_int # -1 =>
        value_int = IF HasDigit(BeforePoint(value_str))
                    THEN IntOf(FirstDigitRun(BeforePoint(value_str)))
                    ELSE 0

\* C17: the integer setup_rag_pipeline parses from a nutrition string and
\* the integer clean_ediya_data extracts from it are the same, for every
\* nutrition string.
C17_SameExtraction ==
    (value_int # -1 /\ meta_int # -1) => value_int = meta_int

(***************************************************************************)
(* Properties of the application.                                          *)
(***************************************************************************)
\* number of times brand b occurs in a sequence of reported brands
Reports(errs, b) == Cardinality({i \in 1..Len(errs) : errs[i] = b})

\* C5: when the persisted index already holds documents, building the
\* pipeline again leaves the stored documents as they were; documents are
\* added only to an empty index.
C5_IndexReused ==
    run.outcome # "none" =>
        (index # run.index_before => run.index_before = <<>>)

\* C7: when a brand file exists but holds malformed JSON, load_data reports
\* it, returns an empty collection for that brand and returns normally.
C7_MalformedRecovered ==
    run.outcome # "none" =>
        /\ run.load = "returned"
        /\ \A b \in Brands :
              files[b].state = "malformed" =>
                  loaded[b] = <<>> /\ Reports(load_errors, b) = 1

\* C8: whichever of the three brand files are absent, load_data returns
\* with an empty collection for each missing brand and the file's records
\* for each present brand, and reports one message per missing file; a
\* missing file never makes load_data fail: it fails only on a file that is
\* there and cannot be parsed.
C8_MissingFilesRecovered ==
    run.outcome # "none" =>
        /\ run.load = "raised" => \E b \in Brands : files[b].state = "malformed"
        /\ run.load = "returned" =>
              \A b \in Brands :
                  /\ files[b].state = "missing" =>
                        loaded[b] = <<>> /\ Reports(load_errors, b) = 1
                  /\ files[b].state = "ok" =>
                        loaded[b] = files[b].records
                        /\ Reports(load_errors, b) = 0

\* a run in which load_data returned with one file missing and another read
C8_Witness ==
    /\ run.load = "returned"
    /\ \E b \in Brands : files[b].state = "missing" /\ loaded[b] = <<>>
    /\ \E b \in Brands : files[b].state = "ok" /\ loaded[b] # <<>>

\* C10: every run of main without OPENAI_API_KEY in the environment stops
\* inside setup_rag_pipeline with the error message, before any document,
\* embedding, index or chain is made and before any mode is rendered.
C10_HaltsInSetup ==
    (run.outcome # "none" /\ ~run.key) =>
        /\ run.outcome = "stopped"
        /\ run.log = <<"st.error", "st.stop">>

\* the body of a record: its description and its nutrition
EmptyBody(item) == item.description = <<>> /\ item.nutrition = {}

\* the documents of the records that have a name or a body, in input order
RECURSIVE DocumentsOfNamedOrDescribed(_)
DocumentsOfNamedOrDescribed(items) ==
    IF items = <<>> THEN <<>>
    ELSE (IF Head(items).name = <<>> /\ EmptyBody(Head(items))
          THEN <<>> ELSE <<Document(Head(items))>>)
         \o DocumentsOfNamedOrDescribed(Tail(items))

\* the last run of main built the document set
BuiltDocuments ==
    /\ run.outcome = "rendered"
    /\ Len(run.log) > 0
    /\ run.log[1] = "documents"

\* C13: setup_rag_pipeline leaves a record out of the document set if and
\* only if both its name and its body (description and nutrition) are empty;
\* every other record yields exactly one document, in the order starbucks,
\* ediya, gongcha.
C13_DroppedIffNameAndBodyEmpty ==
    BuiltDocuments =>
        index = run.index_before
                    \o DocumentsOfNamedOrDescribed(all_menu_items(loaded))

(***************************************************************************)
(* Properties of the interactive session.                                  *)
(***************************************************************************)
\* the transcript alternates user, assistant, user, ... from a user turn
Alternates(messages) ==
    \A i \in 1..Len(messages) :
        messages[i].role = IF i % 2 = 1 THEN "user" ELSE "assistant"

\* every (question, answer) pair of a list of entries, in order: an
\* assistant entry with the user entry right before it
RECURSIVE QuestionAnswerPairs(_)
QuestionAnswerPairs(entries) ==
    IF Len(entries) < 2 THEN <<>>
    ELSE IF entries[1].role = "user" /\ entries[2].role = "assistant"
         THEN << <<entries[1].content, entries[2].content>> >>
              \o QuestionAnswerPairs(SubSeq(entries, 3, Len(entries)))
    ELSE QuestionAnswerPairs(Tail(entries))

\* C11: whenever chatbot_mode calls the RAG unit, the question passed is the
\* last transcript entry and is a user turn, the history passed is the
\* ordered list of all earlier (question, answer) pairs, and on return
\* exactly one assistant entry carrying the answer is appended; the
\* transcript always alternates user, assistant from a user turn, also after
\* calls that raised.
C11_RagCallContract ==
    /\ Alternates(session.messages)
    /\ session.qa.called =>
          LET t == session.qa.transcript IN
          /\ t # <<>>
          /\ t[Len(t)].role = "user"
          /\ session.qa.question = t[Len(t)].content
          /\ session.qa.chat_history =
                 QuestionAnswerPairs(SubSeq(t, 1, Len(t) - 1))
          /\ session.qa.outcome = "returned" =>
                 session.messages =
                     Append(t, [role |-> "assistant",
                                content |-> session.qa.answer])

\* the records of data whose category is c, in the order of data
RECURSIVE RecordsOfCategory(_, _)
RecordsOfCategory(data, c) ==
    IF data = <<>> THEN <<>>
    ELSE (IF Head(data).category = c THEN <<Head(data)>> ELSE <<>>)
         \o RecordsOfCategory(Tail(data), c)

\* index of the first record of data with category c
FirstSeen(data, c) ==
    CHOOSE i \in 1..Len(data) :
        data[i].category = c /\ \A j \in 1..(i - 1) : data[j].category # c

AllCategorized(data) == \A i \in 1..Len(data) : data[i].category # ""

\* the collection of the active brand
ActiveData == brand_data_map(loaded, session.active_brand)

\* C12: for a collection in which every record has a category, the category
\* list shown holds each distinct category exactly once, in order of first
\* occurrence, and the grid shown for the active category holds exactly the
\* records of the active brand with that category, in collection order.
C12_CategoriesAndGrid ==
    (session.view = "grid" /\ AllCategorized(ActiveData)) =>
        LET cats == session.categories IN
        /\ \A i \in 1..Len(ActiveData) :
              Cardinality({k \in 1..Len(cats) :
                              cats[k] = ActiveData[i].category}) = 1
        /\ \A k \in 1..Len(cats) :
              \E i \in 1..Len(ActiveData) : ActiveData[i].category = cats[k]
        /\ \A j, k \in 1..Len(cats) :
              j < k => FirstSeen(ActiveData, cats[j])
                           < FirstSeen(ActiveData, cats[k])
        /\ session.grid =
               RecordsOfCategory(ActiveData, session.active_category[1])

\* the grid of a category that occurs twice in a collection of three
C12_Witness ==
    /\ session.view = "grid"
    /\ AllCategorized(ActiveData)
    /\ Len(ActiveData) = 3
    /\ session.categories = <<"X", "Y">>
    /\ session.active_category = <<"X">>
    /\ Len(session.grid) = 2

\* C14: after a record is selected from the grid of the active brand and
\* back is pressed, selected_item is not set, the grid is shown, and
\* active_brand is the brand that was active when the record was selected,
\* whatever the record's brand field holds.
C14_BackReturnsToActiveBrand ==
    session.event.kind = "back" =>
        /\ session.selected_item = <<>>
        /\ session.view \in {"grid", "all_grid"}
        /\ session.active_brand = session.brand_at_select

\* the questions of the file of the session
Questions == load_recommended_questions(session.questions_file)

\* the entries the last event added to the transcript
NewEntries ==
    IF session.event.kind = "reset" THEN session.messages
    ELSE SubSeq(session.messages, Len(session.before.messages) + 1,
                Len(session.messages))

\* C15: the recommended questions are rendered in a run only if the
\* transcript is empty at that point; once a user turn has been appended
\* they are not rendered again until a reset; a reset empties the transcript
\* and the pending selection, and a user entry is appended only for the
\* prompt typed or the question clicked in the event itself.
C15_RecommendationsOnlyBeforeFirstTurn ==
    /\ \A i \in 1..Len(session.runs) :
          session.runs[i].recommendations \in {-1, 0}
    /\ (session.before.messages # <<>> /\ session.event.kind # "reset") =>
          \A i \in 1..Len(session.runs) :
              session.runs[i].recommendations = -1
    /\ session.event.kind = "reset" =>
          /\ session.messages = <<>>
          /\ session.prompt_from_recommendation = <<>>
    /\ \A i \in 1..Len(NewEntries) :
          NewEntries[i].role = "user" =>
              \/ /\ session.event.kind = "chat_input"
                 /\ NewEntries[i].content = session.event.text
              \/ /\ session.event.kind = "click_recommendation"
                 /\ NewEntries[i].content = Questions[session.event.index]

\* a reset of a transcript that began with a recommended question, after
\* which the recommended questions are on screen again
C15_Witness ==
    /\ session.event.kind = "reset"
    /\ session.before.messages # <<>>
    /\ session.before.messages[1].content = "r"
    /\ session.messages = <<>>
    /\ session.recommended

\* C20: whenever a category-filtered grid is shown the active category is a
\* category of the active brand's collection, and after a change of brand
\* the grid shown is that of the first category of the new brand.
C20_CategoryOfActiveBrand ==
    session.view = "grid" =>
        /\ InSeq(session.active_category[1], get_categories(ActiveData))
        /\ (session.before.active_brand # ""
            /\ session.active_brand # session.before.active_brand) =>
               session.active_category = <<get_categories(ActiveData)[1]>>

(***************************************************************************)
(* Properties of the scrapers.                                             *)
(***************************************************************************)
\* the scraper is in the 'load more' loop of a category
InMoreLoop == scraper.pc \in {"ed_more", "ed_click"}

\* C16: the 'load more' loop of the Ediya scraper is bounded: after a fixed
\* number of click-and-wait iterations it terminates, whatever the page
\* does, also when the 'more' control stays clickable forever.
C16_MoreLoopTerminates == InMoreLoop ~> ~InMoreLoop

\* C6 as stated: every run of a brand scraper that returns has overwritten
\* the brand's file with the collection accumulated so far.
C6_ReturnedMeansWritten ==
    scraper.result = "returned" =>
        /\ scraper.wrote
        /\ files[scraper.brand] = JsonFile(scraper.all_menu_data)

\* C6 as amended: a returning run of get_ediya_menu or get_gongcha_menu has
\* overwritten the brand's file with the collection accumulated so far; a
\* returning run of get_starbucks_menu has done so exactly when its product
\* list was not empty, and has otherwise left the file as it was.
C6_WrittenUnlessNoProducts ==
    scraper.result = "returned" =>
        IF scraper.brand = "Starbucks" /\ scraper.products = 0
        THEN ~scraper.wrote /\ files[scraper.brand] = scraper.prior
        ELSE /\ scraper.wrote
             /\ files[scraper.brand] = JsonFile(scraper.all_menu_data)

\* an Ediya run that failed after collecting records and wrote them over a
\* file that held something else
C6_Witness ==
    /\ scraper.result = "returned"
    /\ scraper.brand = "Ediya"
    /\ scraper.critical
    /\ scraper.all_menu_data # <<>>
    /\ scraper.prior = JsonFile(<<prior_record("Ediya")>>)
    /\ files["Ediya"] = JsonFile(scraper.all_menu_data)

====
